---- MODULE Spec2Model ----
(***************************************************************************)
(* Max-flow engine of the Traffic Simulation game: the two solvers of      *)
(* maxflow.py (edmonds_karp, edmonds_karp_with_flows, dinic), the two      *)
(* solvers of Backend/algorithms.py (edmonds_karp_with_flows, dinic) and   *)
(* the cross-validated computation of app.py and Backend/main.py.          *)
(*                                                                         *)
(* A Python dict is modelled as the sequence of its <<key, value>> items   *)
(* in insertion order, because the solvers iterate dicts in that order.    *)
(***************************************************************************)
EXTENDS Integers, Sequences, FiniteSets, TLC

(***************************************************************************)
(* Bounds of the model.                                                    *)
(***************************************************************************)
\* largest capacity the enumerated input graphs carry
MaxCap == 2

\* pushes of INF a phase of dinic is followed through when source = sink
\* (pushed is an unbounded Python int)
MaxInfPushes == 2

(***************************************************************************)
(* Python dict primitives (insertion-ordered).                             *)
(***************************************************************************)
DHas(d, k) == \E i \in 1..Len(d) : d[i][1] = k

DIdx(d, k) == CHOOSE i \in 1..Len(d) : d[i][1] = k

DGet(d, k) == d[DIdx(d, k)][2]

\* d[k] = v : an existing key keeps its position, a new key goes last
DPut(d, k, v) ==
  IF DHas(d, k) THEN [d EXCEPT ![DIdx(d, k)] = <<k, v>>]
  ELSE Append(d, <<k, v>>)

\* d.setdefault(k, v)
DSetDefault(d, k, v) == IF DHas(d, k) THEN d ELSE Append(d, <<k, v>>)

DKeys(d) == [i \in 1..Len(d) |-> d[i][1]]

DKeySet(d) == {d[i][1] : i \in 1..Len(d)}

\* r[u][v] of a dict of dicts
DGet2(r, u, v) == DGet(DGet(r, u), v)

\* r[u][v] = x of a dict of dicts (r[u] exists)
DPut2(r, u, v, x) == DPut(r, u, DPut(DGet(r, u), v, x))

Min2(a, b) == IF a <= b THEN a ELSE b

Max2(a, b) == IF a >= b THEN a ELSE b

RECURSIVE SumFn(_)
SumFn(f) ==
  IF DOMAIN f = {} THEN 0
  ELSE LET x == CHOOSE y \in DOMAIN f : TRUE
       IN f[x] + SumFn([y \in DOMAIN f \ {x} |-> f[y]])

(***************************************************************************)
(* Capacity graphs: generate_random_capacity_graph builds {u: {} for u in  *)
(* NODES} and then sets g[u][v] for the edges in list order.               *)
(***************************************************************************)
\* st is the state of the loop over the edges: the graph st.g and the index
\* st.i of the next edge
RECURSIVE SetEdges(_, _, _)
SetEdges(st, edges, caps) ==
  IF st.i > Len(edges) THEN st.g
  ELSE LET u == edges[st.i][1]
           v == edges[st.i][2]
       IN SetEdges([g |-> DPut2(st.g, u, v, caps[st.i]), i |-> st.i + 1],
                   edges, caps)

MakeGraph(nodes, edges, caps) ==
  SetEdges([g |-> [i \in 1..Len(nodes) |-> <<nodes[i], <<>> >>], i |-> 1],
           edges, caps)

\* capacity(u,v) of a capacity graph, 0 for an edge that is not there
CapOf(g, u, v) ==
  IF DHas(g, u) /\ DHas(DGet(g, u), v) THEN DGet2(g, u, v) ELSE 0

\* the original edges (u,v) of a capacity graph
EdgesOf(g) == {e \in DKeySet(g) \X UNION {DKeySet(DGet(g, u)) : u \in DKeySet(g)} :
                 DHas(DGet(g, e[1]), e[2])}

\* node universe: keys and edge targets
NodesOf(g) == DKeySet(g) \cup UNION {DKeySet(DGet(g, u)) : u \in DKeySet(g)}

(***************************************************************************)
(* Enumerated inputs of the solvers: the capacity graphs over a six-node   *)
(* topology, built the way generate_random_capacity_graph builds them.     *)
(* The topology has a three-hop path A-B-C-T whose middle edge a later     *)
(* five-hop path A-D-C-B-E-T cancels, an optional antiparallel edge C->B,  *)
(* zero capacities, and a sink that is a key or only an edge target.       *)
(***************************************************************************)
SkelNodes == <<"A", "B", "C", "D", "E", "T">>

SkelNodesNoSink == <<"A", "B", "C", "D", "E">>

SkelEdges == << <<"A", "B">>, <<"A", "D">>, <<"B", "C">>, <<"B", "E">>,
                <<"C", "T">>, <<"D", "C">>, <<"E", "T">> >>

AntiEdge == <<"C", "B">>

Reverse(seq) == [i \in 1..Len(seq) |-> seq[Len(seq) + 1 - i]]

CapChoices == {0, 1, MaxCap}

\* the capacity lists of an edge list: an edge out of the source A carries
\* a positive capacity, every other edge any of CapChoices
CapLists(es) ==
  {caps \in [1..Len(es) -> CapChoices] :
     \A i \in 1..Len(es) : es[i][1] = "A" => caps[i] > 0}

\* the node lists and edge lists the graphs are built from
Shapes == { <<SkelNodes, SkelEdges>>,
            <<SkelNodesNoSink, Append(SkelEdges, AntiEdge)>>,
            <<SkelNodes, Append(Reverse(SkelEdges), AntiEdge)>> }

InputGraphs ==
  UNION { {MakeGraph(sh[1], sh[2], caps) : caps \in CapLists(sh[2])}
          : sh \in Shapes }

(***************************************************************************)
(* Reference values the claims are stated against.                         *)
(***************************************************************************)
\* capacity of the cut (S, V \ S)
CutCap(g, S) ==
  SumFn([e \in {x \in EdgesOf(g) : x[1] \in S /\ x[2] \notin S} |->
           DGet2(g, e[1], e[2])])

\* minimum capacity over all s-t cuts
MinCut(g, s, t) ==
  LET cuts == {CutCap(g, S \cup {s}) : S \in SUBSET (NodesOf(g) \ {s, t})}
  IN CHOOSE m \in cuts : \A c \in cuts : m <= c

\* flow of an assignment into and out of node n, over the original edges
FlowIn(g, fd, n) == SumFn([e \in {x \in EdgesOf(g) : x[2] = n} |-> fd[e]])

FlowOut(g, fd, n) == SumFn([e \in {x \in EdgesOf(g) : x[1] = n} |-> fd[e]])

Conserved(g, fd, s, t) ==
  \A n \in NodesOf(g) \ {s, t} : FlowIn(g, fd, n) = FlowOut(g, fd, n)

WithinCapacity(g, fd) ==
  \A e \in EdgesOf(g) : 0 <= fd[e] /\ fd[e] <= DGet2(g, e[1], e[2])

(***************************************************************************)
(* maxflow.py                                                              *)
(***************************************************************************)
\* float('inf'), the start value of a bottleneck
FloatInf == 1000000001

\* x += y of Python numbers where y may be float('inf'): inf + y is inf
Plus(x, y) == IF x = FloatInf \/ y = FloatInf THEN FloatInf ELSE x + y

\* INF of dinic
INF == 1000000000

\* Python None and the empty dict: both are false in "if not level"
None == <<>>

\* a local name that is not bound yet ('flow' not in locals())
Unbound == -1

\* the inner loop writing res[v][u] = 0 without the test u not in res[v]
RECURSIVE BuildInnerAlwaysZero(_, _, _)
BuildInnerAlwaysZero(st, u, items) ==
  IF st.j > Len(items) THEN st.r
  ELSE LET v  == items[st.j][1]
           c  == items[st.j][2]
           r1 == DPut2(st.r, u, v, c)
           r2 == DSetDefault(r1, v, <<>>)
           r3 == DPut2(r2, v, u, 0)
       IN BuildInnerAlwaysZero([r |-> r3, j |-> st.j + 1], u, items)

\* inner loop of _build_residual: for v,cap in graph[u].items().
\* st is the state of the loop: the residual st.r built so far and the
\* index st.j of the next item.
RECURSIVE BuildInner(_, _, _)
BuildInner(st, u, items) ==
  IF st.j > Len(items) THEN st.r
  ELSE LET v  == items[st.j][1]
           c  == items[st.j][2]
           r1 == DPut2(st.r, u, v, c)
           r2 == DSetDefault(r1, v, <<>>)
           r3 == IF ~DHas(DGet(r2, v), u) THEN DPut2(r2, v, u, 0) ELSE r2
       IN BuildInner([r |-> r3, j |-> st.j + 1], u, items)

\* outer loop of _build_residual: for u in graph.
\* st is the state of the loop: the residual st.r and the index st.i of the
\* next key.
RECURSIVE BuildOuter(_, _)
BuildOuter(st, g) ==
  IF st.i > Len(g) THEN st.r
  ELSE LET u  == g[st.i][1]
           r0 == DSetDefault(st.r, u, <<>>)
       IN BuildOuter([r |-> BuildInner([r |-> r0, j |-> 1], u, g[st.i][2]),
                      i |-> st.i + 1], g)

_build_residual(g) == BuildOuter([r |-> <<>>, i |-> 1], g)

\* The inner dicts of the residual that are the caller's own dict objects:
\* none, res.setdefault(u, {}) allocates every inner dict anew.
BuildSharesAll(g) == DKeySet(g)

BuildShares(g) == {}

\* The caller's graph as it reads after the solver wrote r: an inner dict
\* that is shared shows the solver's writes.
SeenThrough(g, sh, r) ==
  [i \in 1..Len(g) |-> IF g[i][1] \in sh /\ DHas(r, g[i][1])
                       THEN <<g[i][1], DGet(r, g[i][1])>>
                       ELSE g[i]]

\* the scan taking every edge of non-zero capacity (if cap and ...)
RECURSIVE EKScanNonZero(_, _, _, _, _, _)
EKScanNonZero(r, u, i, par, q, t) ==
  LET items == DGet(r, u) IN
  IF i > Len(items) THEN [parent |-> par, q |-> q]
  ELSE LET v == items[i][1]
           c == items[i][2]
       IN IF c # 0 /\ v \notin DOMAIN par
          THEN IF v = t
               THEN [parent |-> par @@ (v :> u), q |-> q]
               ELSE EKScanNonZero(r, u, i + 1, par @@ (v :> u), Append(q, v), t)
          ELSE EKScanNonZero(r, u, i + 1, par, q, t)

\* for v,cap in res[u].items() of the breadth-first search of edmonds_karp,
\* from item i on; stops at the sink (break)
RECURSIVE EKScan(_, _, _, _, _, _)
EKScan(r, u, i, par, q, t) ==
  LET items == DGet(r, u) IN
  IF i > Len(items) THEN [parent |-> par, q |-> q]
  ELSE LET v == items[i][1]
           c == items[i][2]
       IN IF c > 0 /\ v \notin DOMAIN par
          THEN IF v = t
               THEN [parent |-> par @@ (v :> u), q |-> q]
               ELSE EKScan(r, u, i + 1, par @@ (v :> u), Append(q, v), t)
          ELSE EKScan(r, u, i + 1, par, q, t)

\* while q: of edmonds_karp; the result is the parent map
RECURSIVE EKBfs(_, _, _, _)
EKBfs(r, par, q, t) ==
  IF q = <<>> THEN par
  ELSE LET sc == EKScan(r, Head(q), 1, par, Tail(q), t)
       IN IF t \in DOMAIN sc.parent THEN sc.parent
          ELSE EKBfs(r, sc.parent, sc.q, t)

\* the parent map of a depth-first search: a node is given its parent when
\* the search enters it, and its neighbours are followed before its siblings
EKParentDepthFirst(r, s, t) ==
  LET RECURSIVE Visit(_, _, _)
      Visit(u, i, par) ==
        IF t \in DOMAIN par \/ i > Len(DGet(r, u)) THEN par
        ELSE LET v == DGet(r, u)[i][1]
                 c == DGet(r, u)[i][2]
             IN IF c > 0 /\ v \notin DOMAIN par
                THEN Visit(u, i + 1, Visit(v, 1, par @@ (v :> u)))
                ELSE Visit(u, i + 1, par)
  IN Visit(s, 1, (s :> "None"))

\* parent = {s: None}; q = deque([s]); while q: ...
EKParent(r, s, t) == EKBfs(r, (s :> "None"), <<s>>, t)

\* the path s..t read back through the parent pointers
RECURSIVE PathTo(_, _, _)
PathTo(par, s, v) ==
  IF v = s THEN <<s>> ELSE Append(PathTo(par, s, par[v]), v)

\* the walk taking bottleneck = res[u][v] of each edge, the min left out
RECURSIVE EKBottleneckLastEdge(_, _, _, _)
EKBottleneckLastEdge(st, r, par, s) ==
  IF st.v = s THEN st.b
  ELSE EKBottleneckLastEdge([v |-> par[st.v],
                             b |-> DGet2(r, par[st.v], st.v)], r, par, s)

\* bottleneck = min(bottleneck, res[u][v]) walking back from the sink.
\* st is the state of the loop: the node st.v and the bottleneck st.b.
RECURSIVE EKBottleneck(_, _, _, _)
EKBottleneck(st, r, par, s) ==
  IF st.v = s THEN st.b
  ELSE EKBottleneck([v |-> par[st.v],
                     b |-> Min2(st.b, DGet2(r, par[st.v], st.v))], r, par, s)

\* res[u][v] -= bottleneck without its reverse update
EKPushNoReverse(r, u, v, b) == DPut2(r, u, v, DGet2(r, u, v) - b)

\* res[u][v] -= bottleneck ; res[v][u] += bottleneck
EKPush(r, u, v, b) ==
  LET r1 == DPut2(r, u, v, DGet2(r, u, v) - b)
  IN DPut2(r1, v, u, DGet2(r1, v, u) + b)

\* the apply loop leaving res[u][v] as it is: only res[v][u] += bottleneck
RECURSIVE EKApplyReverseOnly(_, _, _, _)
EKApplyReverseOnly(st, par, s, b) ==
  IF st.v = s THEN st.r
  ELSE EKApplyReverseOnly(
         [v |-> par[st.v],
          r |-> DPut2(st.r, st.v, par[st.v], DGet2(st.r, st.v, par[st.v]) + b)],
         par, s, b)

\* the apply loop of edmonds_karp, walking back from the sink.
\* st is the state of the loop: the node st.v and the residual st.r.
RECURSIVE EKApply(_, _, _, _)
EKApply(st, par, s, b) ==
  IF st.v = s THEN st.r
  ELSE EKApply([v |-> par[st.v], r |-> EKPush(st.r, par[st.v], st.v, b)],
               par, s, b)

\* flow_dict of edmonds_karp_with_flows: original_cap - residual_cap,
\* clamped to zero when negative
ResidualOr0(r, u, v) ==
  IF DHas(r, u) /\ DHas(DGet(r, u), v) THEN DGet2(r, u, v) ELSE 0

\* int(sent) if sent >= 0 else 0
ClampUnsigned(sent) == sent

Clamp(sent) == IF sent >= 0 THEN sent ELSE 0

\* sent = residual_cap, the subtraction left out
SentIsResidual(orig_cap, residual_cap) == residual_cap

\* sent = orig_cap - residual_cap
Sent(orig_cap, residual_cap) == orig_cap - residual_cap

\* only the edges that carry flow get an entry
FlowOfUsedEdges(g, r) ==
  [e \in {d \in EdgesOf(g) :
            Clamp(Sent(DGet2(g, d[1], d[2]), ResidualOr0(r, d[1], d[2]))) > 0} |->
     Clamp(Sent(DGet2(g, e[1], e[2]), ResidualOr0(r, e[1], e[2])))]

\* flow_dict[(u, v)] = int(sent) if sent >= 0 else 0, for every original edge
FlowBySubtraction(g, r) ==
  [e \in EdgesOf(g) |->
     Clamp(Sent(DGet2(g, e[1], e[2]), ResidualOr0(r, e[1], e[2])))]

\* for v,cap in res[u].items() of bfs_level of dinic, from item i on
RECURSIVE DinicScan(_, _, _, _, _)
DinicScan(r, u, i, lev, q) ==
  LET items == DGet(r, u) IN
  IF i > Len(items) THEN [level |-> lev, q |-> q]
  ELSE LET v == items[i][1]
           c == items[i][2]
       IN IF c > 0 /\ v \notin DOMAIN lev
          THEN DinicScan(r, u, i + 1, lev @@ (v :> lev[u] + 1), Append(q, v))
          ELSE DinicScan(r, u, i + 1, lev, q)

RECURSIVE DinicBfs(_, _, _)
DinicBfs(r, lev, q) ==
  IF q = <<>> THEN lev
  ELSE LET sc == DinicScan(r, Head(q), 1, lev, Tail(q))
       IN DinicBfs(r, sc.level, sc.q)

\* bfs_level(): the level dict, or None when the sink has no level
bfs_level(r, s, t) ==
  LET lev == DinicBfs(r, (s :> 0), <<s>>)
  IN IF t \in DOMAIN lev THEN lev ELSE None

\* level.get(v, -1)
LevelGet(lev, v) == IF v \in DOMAIN lev THEN lev[v] ELSE -1

\* res[u][v] -= pushed without its reverse update
DfsPushNoReverse(r, u, v, p) == DPut2(r, u, v, DGet2(r, u, v) - p)

\* res[u][v] -= pushed ; res[v][u] += pushed
DfsPush(r, u, v, p) ==
  LET r1 == DPut2(r, u, v, DGet2(r, u, v) - p)
  IN DPut2(r1, v, u, DGet2(r1, v, u) + p)

\* dfs(u, f, t, level, it) of dinic; DfsLoop is its for loop at index i.
\* The result carries the pushed amount and the updated res and it.
RECURSIVE dfs(_, _, _, _, _, _, _)
RECURSIVE DfsLoop(_, _, _, _, _, _, _, _)
RECURSIVE DfsLoopSkipping(_, _, _, _, _, _, _, _)
dfs(u, f, t, lev, ad, r, cur) ==
  IF u = t THEN [f |-> f, res |-> r, it |-> cur]
  ELSE DfsLoop(u, cur[u], f, t, lev, ad, r, cur)

\* the for loop moving the cursor it[u] past an edge that has just pushed flow
DfsLoopSkipping(u, i, f, t, lev, ad, r, cur) ==
  IF i >= Len(ad[u]) THEN [f |-> 0, res |-> r, it |-> cur]
  ELSE LET v == ad[u][i + 1] IN
       IF DGet2(r, u, v) > 0 /\ LevelGet(lev, v) = lev[u] + 1
       THEN LET d == dfs(v, Min2(f, DGet2(r, u, v)), t, lev, ad, r, cur) IN
            IF d.f # 0
            THEN [f |-> d.f, res |-> DfsPush(d.res, u, v, d.f),
                  it |-> [d.it EXCEPT ![u] = @ + 1]]
            ELSE DfsLoopSkipping(u, i + 1, f, t, lev, ad, d.res,
                                 [d.it EXCEPT ![u] = @ + 1])
       ELSE DfsLoopSkipping(u, i + 1, f, t, lev, ad, r,
                            [cur EXCEPT ![u] = @ + 1])

DfsLoop(u, i, f, t, lev, ad, r, cur) ==
  IF i >= Len(ad[u]) THEN [f |-> 0, res |-> r, it |-> cur]
  ELSE LET v == ad[u][i + 1] IN
       IF DGet2(r, u, v) > 0 /\ LevelGet(lev, v) = lev[u] + 1
       THEN LET d == dfs(v, Min2(f, DGet2(r, u, v)), t, lev, ad, r, cur) IN
            IF d.f # 0
            THEN [f |-> d.f, res |-> DfsPush(d.res, u, v, d.f), it |-> d.it]
            ELSE DfsLoop(u, i + 1, f, t, lev, ad, d.res,
                         [d.it EXCEPT ![u] = @ + 1])
       ELSE DfsLoop(u, i + 1, f, t, lev, ad, r, [cur EXCEPT ![u] = @ + 1])

\* adj = {u: list(res[u].keys()) for u in res}
AdjOf(r) == [u \in DKeySet(r) |-> DKeys(DGet(r, u))]

\* it = {u: 0 for u in res}
ItOf(r) == [u \in DKeySet(r) |-> 0]

(***************************************************************************)
(* State.                                                                  *)
(***************************************************************************)
VARIABLES
  graph,       \* the caller's capacity graph
  source,      \* s
  sink,        \* t
  pc,          \* the solver that is running and its position, or "idle"
  res,         \* the running solver's residual graph
  shared,      \* keys u whose res[u] is the same dict object as graph[u]
  flow,        \* accumulated flow of the running solver
  parent,      \* parent pointers of the last breadth-first search
  bottleneck,  \* bottleneck of the last augmentation
  level,       \* level dict of the current dinic phase
  adj,         \* adjacency lists of the current dinic phase
  it,          \* current-arc cursors of the current dinic phase
  pushed,      \* flow pushed in the current dinic phase
  flow_dict,   \* flow assignment of the flow-tracking solver
  ret,         \* value returned by each solver that has returned
  graph0,      \* the caller's graph as it was when the first solver was called
  path,        \* augmenting path of the last search of Backend/algorithms.py
  prog,        \* the caller: "app" (app.py) or "api" (Backend/main.py)
  current_graph,   \* self.current_graph / game_state['current_graph']
  round,           \* self.round / game_state['round']
  cv_pc,           \* position of the cross-validated computation
  guess,           \* the player's guess handed to the computation
  graph_copy,      \* graph_copy (app.py), graph_ek (main.py)
  graph_copy2,     \* graph_copy2 (app.py), graph_dinic (main.py)
  ek_flow,
  dinic_flow,
  correct_flow,
  alg_disagree,    \* app.py
  algorithms_agree,\* main.py
  is_correct,
  saved,           \* rows written by save_game_result
  outcome,         \* "none", "ok" (result shown / returned) or "error"
  raised,          \* exception each solver call ended with, or "none"
  first,           \* what the first of two calls of a solver returned
  play_btn,        \* state of play_btn (app.py) / submit_btn (app_debug.py)
  new_round_btn,   \* state of next_round_btn / new_round_btn
  is_processing,   \* self.is_processing of app_debug.py
  threads,         \* position of each worker thread started so far
  after_q,         \* callbacks handed to self.after(0, ...), not yet run
  accepted,        \* current_graph and round when the last submission was accepted
  submits          \* number of submissions accepted so far

solverVars == <<graph, source, sink, pc, res, shared, flow, parent, bottleneck,
                level, adj, it, pushed, flow_dict, ret, graph0, path>>

appVars == <<prog, current_graph, round, cv_pc, guess, graph_copy, graph_copy2,
             ek_flow, dinic_flow, correct_flow, alg_disagree, algorithms_agree,
             is_correct, saved, outcome>>

callVars == <<raised, first>>

uiVars == <<play_btn, new_round_btn, is_processing, threads, after_q, accepted,
            submits>>

vars == <<solverVars, appVars, callVars, uiVars>>

Solvers == {"ek", "ekf", "dinic", "bek", "bdinic"}

\* no value returned yet
NoRet == -1

solverLocals == <<res, shared, flow, parent, bottleneck, level, adj, it, pushed>>

InitLocals ==
  /\ pc = "idle"
  /\ res = <<>>
  /\ shared = {}
  /\ flow = Unbound
  /\ parent = <<>>
  /\ bottleneck = 0
  /\ level = None
  /\ adj = <<>>
  /\ it = <<>>
  /\ pushed = 0
  /\ flow_dict = <<>>
  /\ path = None
  /\ ret = [a \in Solvers |-> NoRet]

\* no cross-validated computation is under way
AppIdle ==
  /\ prog = "none"
  /\ current_graph = <<>>
  /\ round = 0
  /\ cv_pc = "none"
  /\ guess = 0
  /\ graph_copy = <<>>
  /\ graph_copy2 = <<>>
  /\ ek_flow = NoRet
  /\ dinic_flow = NoRet
  /\ correct_flow = NoRet
  /\ alg_disagree = FALSE
  /\ algorithms_agree = FALSE
  /\ is_correct = FALSE
  /\ saved = <<>>
  /\ outcome = "none"

\* no call has raised, no solver has been called a second time
CallIdle ==
  /\ raised = [a \in Solvers |-> "none"]
  /\ first = <<>>

\* the window as _build_ui leaves it: both buttons enabled, no worker thread
\* started, no callback pending
UiIdle ==
  /\ play_btn = "normal"
  /\ new_round_btn = "normal"
  /\ is_processing = FALSE
  /\ threads = <<>>
  /\ after_q = <<>>
  /\ accepted = <<>>
  /\ submits = 0

Init ==
  /\ graph \in InputGraphs
  /\ graph0 = graph
  /\ source = "A"
  /\ sink = "T"
  /\ InitLocals
  /\ AppIdle
  /\ CallIdle
  /\ UiIdle

(***************************************************************************)
(* maxflow.py: edmonds_karp (a = "ek") and edmonds_karp_with_flows         *)
(* (a = "ekf"), whose loops are the same code.                             *)
(***************************************************************************)
\* the first statements of the solver called with graph g:
\* res = _build_residual(graph); flow = 0
EnterEK(a, g) ==
  /\ res' = _build_residual(g)
  /\ shared' = BuildShares(g)
  /\ graph' = SeenThrough(g, shared', res')
  /\ flow' = 0
  /\ pc' = a
  /\ UNCHANGED <<source, sink, parent, bottleneck, level, adj, it, pushed,
                 flow_dict, ret, path>>

\* the solver is called on the input graph
CallEK(a) ==
  /\ pc = "idle"
  /\ ret[a] = NoRet
  /\ a = "ekf" => ret["ek"] # NoRet
  /\ EnterEK(a, graph)
  /\ UNCHANGED graph0
  /\ UNCHANGED appVars
  /\ UNCHANGED callVars
  /\ UNCHANGED uiVars

\* one round of while True: the search reaches t, the path is augmented
EKAugment(a) ==
  /\ pc = a
  /\ DHas(res, source)
  /\ LET par == EKParent(res, source, sink)
         b   == EKBottleneck([v |-> sink, b |-> FloatInf], res, par, source)
     IN /\ sink \in DOMAIN par
        /\ parent' = par
        /\ bottleneck' = b
        /\ res' = EKApply([v |-> sink, r |-> res], par, source, b)
        /\ flow' = Plus(flow, b)
  /\ graph' = SeenThrough(graph, shared, res')
  /\ UNCHANGED <<source, sink, pc, shared, level, adj, it, pushed, flow_dict,
                 ret, graph0, path>>
  /\ UNCHANGED appVars
  /\ UNCHANGED callVars
  /\ UNCHANGED uiVars

\* the search does not reach t: break, and return int(flow)
\* (with the flow_dict for edmonds_karp_with_flows)
EKReturn(a) ==
  /\ pc = a
  /\ DHas(res, source)
  /\ LET par == EKParent(res, source, sink)
     IN /\ sink \notin DOMAIN par
        /\ parent' = par
  /\ flow_dict' = IF a = "ekf" THEN FlowBySubtraction(graph, res) ELSE flow_dict
  /\ ret' = [ret EXCEPT ![a] = flow]
  /\ pc' = "idle"
  /\ UNCHANGED <<graph, source, sink, res, shared, flow, bottleneck, level,
                 adj, it, pushed, graph0, path>>
  /\ UNCHANGED appVars
  /\ UNCHANGED callVars
  /\ UNCHANGED uiVars

(***************************************************************************)
(* maxflow.py: dinic                                                       *)
(***************************************************************************)
\* the first statement of dinic called with graph g:
\* res = _build_residual(graph)
EnterDinic(g) ==
  /\ res' = _build_residual(g)
  /\ shared' = BuildShares(g)
  /\ graph' = SeenThrough(g, shared', res')
  /\ flow' = Unbound
  /\ pc' = "dinic_bfs"
  /\ UNCHANGED <<source, sink, parent, bottleneck, level, adj, it, pushed,
                 flow_dict, ret, path>>

\* dinic is called on the input graph
CallDinic ==
  /\ pc = "idle"
  /\ ret["ekf"] # NoRet
  /\ ret["dinic"] = NoRet
  /\ EnterDinic(graph)
  /\ UNCHANGED graph0
  /\ UNCHANGED appVars
  /\ UNCHANGED callVars
  /\ UNCHANGED uiVars

\* level = bfs_level(); a level graph exists: adj, it and pushed are set up
DinicPhase ==
  /\ pc = "dinic_bfs"
  /\ DHas(res, source)
  /\ LET lev == bfs_level(res, source, sink)
     IN /\ lev # None
        /\ level' = lev
  /\ adj' = AdjOf(res)
  /\ it' = ItOf(res)
  /\ pushed' = 0
  /\ pc' = "dinic_dfs"
  /\ UNCHANGED <<graph, source, sink, res, shared, flow, parent, bottleneck,
                 flow_dict, ret, graph0, path>>
  /\ UNCHANGED appVars
  /\ UNCHANGED callVars
  /\ UNCHANGED uiVars

\* level = bfs_level() is None: break, and return int(locals().get('flow', 0))
DinicReturn ==
  /\ pc = "dinic_bfs"
  /\ DHas(res, source)
  /\ bfs_level(res, source, sink) = None
  /\ level' = None
  /\ ret' = [ret EXCEPT !["dinic"] = IF flow = Unbound THEN 0 ELSE flow]
  /\ pc' = "idle"
  /\ UNCHANGED <<graph, source, sink, res, shared, flow, parent, bottleneck,
                 adj, it, pushed, flow_dict, graph0, path>>
  /\ UNCHANGED appVars
  /\ UNCHANGED callVars
  /\ UNCHANGED uiVars

\* f = dfs(s, INF, t, level, it) pushes flow: pushed += f
DinicPush ==
  /\ pc = "dinic_dfs"
  /\ pushed < MaxInfPushes * INF
  /\ LET d == dfs(source, INF, sink, level, adj, res, it)
     IN /\ d.f # 0
        /\ res' = d.res
        /\ it' = d.it
        /\ pushed' = pushed + d.f
        /\ bottleneck' = d.f
  /\ graph' = SeenThrough(graph, shared, res')
  /\ UNCHANGED <<source, sink, pc, shared, flow, parent, level, adj,
                 flow_dict, ret, graph0, path>>
  /\ UNCHANGED appVars
  /\ UNCHANGED callVars
  /\ UNCHANGED uiVars

\* f = dfs(...) is 0: the phase ends; flow += pushed; if pushed == 0: break
DinicPhaseEnd ==
  /\ pc = "dinic_dfs"
  /\ LET d == dfs(source, INF, sink, level, adj, res, it)
         fl == (IF flow = Unbound THEN 0 ELSE flow) + pushed
     IN /\ d.f = 0
        /\ res' = d.res
        /\ it' = d.it
        /\ flow' = fl
        /\ IF pushed = 0
           THEN /\ ret' = [ret EXCEPT !["dinic"] = fl]
                /\ pc' = "idle"
           ELSE /\ ret' = ret
                /\ pc' = "dinic_bfs"
  /\ UNCHANGED <<graph, source, sink, shared, parent, bottleneck, level, adj,
                 pushed, flow_dict, graph0, path>>
  /\ UNCHANGED appVars
  /\ UNCHANGED callVars
  /\ UNCHANGED uiVars

NextMF ==
  \/ \E a \in {"ek", "ekf"} : CallEK(a) \/ EKAugment(a) \/ EKReturn(a)
  \/ CallDinic
  \/ DinicPhase
  \/ DinicReturn
  \/ DinicPush
  \/ DinicPhaseEnd

SpecMF == Init /\ [][NextMF]_vars

(***************************************************************************)
(* Backend/algorithms.py (app_debug.py carries the same two functions).    *)
(***************************************************************************)
\* residual = {u: dict(neighbors) for u, neighbors in graph.items()}
CopyGraph(g) == [i \in 1..Len(g) |-> <<g[i][1], g[i][2]>>]

\* The inner dicts of the copy that are the caller's own dict objects:
\* none, dict(neighbors) allocates every inner dict anew.
CopySharesAll(g) == DKeySet(g)

CopyShares(g) == {}

\* flow_dict[(u, v)] = 0 for every original edge
ZeroFlows(g) == [e \in EdgesOf(g) |-> 0]

\* for neighbor, capacity in residual[node].items() of bfs_find_path
RECURSIVE FindScan(_, _, _, _, _, _)
FindScan(r, node, pth, i, visited, q) ==
  LET items == DGet(r, node) IN
  IF i > Len(items) THEN [visited |-> visited, q |-> q]
  ELSE LET nb == items[i][1]
           c  == items[i][2]
       IN IF nb \notin visited /\ c > 0
          THEN FindScan(r, node, pth, i + 1, visited \cup {nb},
                        Append(q, <<nb, Append(pth, nb)>>))
          ELSE FindScan(r, node, pth, i + 1, visited, q)

\* while queue: of bfs_find_path
RECURSIVE FindLoop(_, _, _, _)
FindLoop(r, q, visited, t) ==
  IF q = <<>> THEN None
  ELSE LET node == Head(q)[1]
           pth  == Head(q)[2]
       IN IF node = t THEN pth
          ELSE IF DHas(r, node)
               THEN LET sc == FindScan(r, node, pth, 1, visited, Tail(q))
                    IN FindLoop(r, sc.q, sc.visited, t)
               ELSE FindLoop(r, Tail(q), visited, t)

\* bfs_find_path(): the path as a list of nodes, or None
bfs_find_path(r, s, t) == FindLoop(r, << <<s, <<s>> >> >>, {s}, t)

\* flow = min(flow, residual[u][v]) over the edges of the path.
\* st is the state of the loop: the index st.i of the next edge and st.flow.
RECURSIVE PathMin(_, _, _)
PathMin(st, r, pth) ==
  IF st.i > Len(pth) - 1 THEN st.flow
  ELSE PathMin([i |-> st.i + 1,
                flow |-> Min2(st.flow, DGet2(r, pth[st.i], pth[st.i + 1]))],
               r, pth)

\* residual[v].get(u, 0)
GetOr0(d, k) == IF DHas(d, k) THEN DGet(d, k) ELSE 0

\* residual[u][v] -= flow without the update of residual[v][u]
ResidualPushNoReverse(r, u, v, f) == DPut2(r, u, v, DGet2(r, u, v) - f)

\* residual[u][v] -= flow; if v not in residual: residual[v] = {};
\* residual[v][u] = residual[v].get(u, 0) + flow
ResidualPush(r, u, v, f) ==
  LET r1 == DPut2(r, u, v, DGet2(r, u, v) - f)
      r2 == IF ~DHas(r1, v) THEN DPut(r1, v, <<>>) ELSE r1
  IN DPut2(r2, v, u, GetOr0(DGet(r2, v), u) + f)

\* if (u, v) in flow_dict: flow_dict[(u, v)] += flow
TrackFlow(fd, u, v, f) ==
  IF <<u, v>> \in DOMAIN fd THEN [fd EXCEPT ![<<u, v>>] = @ + f] ELSE fd

\* the update loop of edmonds_karp_with_flows over the edges of the path.
\* st is the state of the loop: the index st.i of the next edge, the
\* residual st.res and st.flow_dict.
RECURSIVE PathApply(_, _, _)
PathApply(st, pth, f) ==
  IF st.i > Len(pth) - 1 THEN st
  ELSE PathApply([i |-> st.i + 1,
                  res |-> ResidualPush(st.res, pth[st.i], pth[st.i + 1], f),
                  flow_dict |-> TrackFlow(st.flow_dict, pth[st.i],
                                          pth[st.i + 1], f)],
                 pth, f)

\* for v, cap in residual[u].items() of bfs_level of Backend dinic
RECURSIVE BLevelScan(_, _, _, _, _)
BLevelScan(r, u, i, lev, q) ==
  LET items == DGet(r, u) IN
  IF i > Len(items) THEN [level |-> lev, q |-> q]
  ELSE LET v == items[i][1]
           c == items[i][2]
       IN IF v \notin DOMAIN lev /\ c > 0
          THEN BLevelScan(r, u, i + 1, lev @@ (v :> lev[u] + 1), Append(q, v))
          ELSE BLevelScan(r, u, i + 1, lev, q)

RECURSIVE BLevelLoop(_, _, _)
BLevelLoop(r, lev, q) ==
  IF q = <<>> THEN lev
  ELSE IF DHas(r, Head(q))
       THEN LET sc == BLevelScan(r, Head(q), 1, lev, Tail(q))
            IN BLevelLoop(r, sc.level, sc.q)
       ELSE BLevelLoop(r, lev, Tail(q))

\* bfs_level() of Backend dinic: the level dict, or None
b_bfs_level(r, s, t) ==
  LET lev == BLevelLoop(r, (s :> 0), <<s>>)
  IN IF t \in DOMAIN lev THEN lev ELSE None

\* the bound handed down is the edge's capacity alone
CarryCapOnly(p, c) == c

\* min(pushed, cap), the bound dfs_flow hands down an edge
Carry(p, c) == Min2(p, c)

\* dfs_flow(u, pushed, level, start) of Backend dinic; DfsFlowLoop is its
\* while loop.  The neighbour list is read from residual[u] anew in every
\* round, so keys added during the phase are seen.  start[u] of a node that
\* is no key of graph has no value (KeyError in the code).
RECURSIVE dfs_flow(_, _, _, _, _, _)
RECURSIVE DfsFlowLoop(_, _, _, _, _, _)
dfs_flow(u, p, t, lev, r, st) ==
  IF u = t THEN [f |-> p, res |-> r, start |-> st]
  ELSE IF ~DHas(r, u) THEN [f |-> 0, res |-> r, start |-> st]
  ELSE DfsFlowLoop(u, p, t, lev, r, st)

DfsFlowLoop(u, p, t, lev, r, st) ==
  IF ~(st[u] < Len(DKeys(DGet(r, u)))) THEN [f |-> 0, res |-> r, start |-> st]
  ELSE LET v == DKeys(DGet(r, u))[st[u] + 1]
           c == DGet2(r, u, v)
       IN IF v \in DOMAIN lev /\ lev[v] = lev[u] + 1 /\ c > 0
          THEN LET d == dfs_flow(v, Carry(p, c), t, lev, r, st) IN
               IF d.f > 0
               THEN [f |-> d.f, res |-> ResidualPush(d.res, u, v, d.f),
                     start |-> d.start]
               ELSE DfsFlowLoop(u, p, t, lev, d.res,
                                [d.start EXCEPT ![u] = @ + 1])
          ELSE DfsFlowLoop(u, p, t, lev, r, [st EXCEPT ![u] = @ + 1])

\* start = {node: 0 for node in graph}
StartOf(g) == [u \in DKeySet(g) |-> 0]

\* the first statements of edmonds_karp_with_flows called with graph g:
\* the residual copy, flow_dict of zeros, max_flow = 0
EnterBEK(g) ==
  /\ res' = CopyGraph(g)
  /\ shared' = CopyShares(g)
  /\ graph' = SeenThrough(g, shared', res')
  /\ flow_dict' = ZeroFlows(g)
  /\ flow' = 0
  /\ pc' = "bek"
  /\ UNCHANGED <<source, sink, parent, bottleneck, level, adj, it, pushed,
                 ret, path>>

\* edmonds_karp_with_flows(graph, source, sink) is called on the input graph
CallBEK ==
  /\ pc = "idle"
  /\ ret["bek"] = NoRet
  /\ EnterBEK(graph)
  /\ UNCHANGED graph0
  /\ UNCHANGED appVars
  /\ UNCHANGED callVars
  /\ UNCHANGED uiVars

\* one round of while True: a path is found and augmented
BEKAugment ==
  /\ pc = "bek"
  /\ LET pth == bfs_find_path(res, source, sink)
         f   == PathMin([i |-> 1, flow |-> FloatInf], res, pth)
         ap  == PathApply([i |-> 1, res |-> res, flow_dict |-> flow_dict],
                          pth, f)
     IN /\ pth # None
        /\ path' = pth
        /\ bottleneck' = f
        /\ res' = ap.res
        /\ flow_dict' = ap.flow_dict
        /\ flow' = Plus(flow, f)
  /\ graph' = SeenThrough(graph, shared, res')
  /\ UNCHANGED <<source, sink, pc, shared, parent, level, adj, it, pushed,
                 ret, graph0>>
  /\ UNCHANGED appVars
  /\ UNCHANGED callVars
  /\ UNCHANGED uiVars

\* no path: break, and return max_flow, flow_dict
BEKReturn ==
  /\ pc = "bek"
  /\ bfs_find_path(res, source, sink) = None
  /\ path' = None
  /\ ret' = [ret EXCEPT !["bek"] = flow]
  /\ pc' = "idle"
  /\ UNCHANGED <<graph, source, sink, res, shared, flow, parent, bottleneck,
                 level, adj, it, pushed, flow_dict, graph0>>
  /\ UNCHANGED appVars
  /\ UNCHANGED callVars
  /\ UNCHANGED uiVars

\* the first statements of dinic called with graph g:
\* the residual copy, max_flow = 0
EnterBDinic(g) ==
  /\ res' = CopyGraph(g)
  /\ shared' = CopyShares(g)
  /\ graph' = SeenThrough(g, shared', res')
  /\ flow' = 0
  /\ pc' = "bdinic_bfs"
  /\ UNCHANGED <<source, sink, parent, bottleneck, level, adj, it, pushed,
                 flow_dict, ret, path>>

\* dinic(graph, source, sink) of Backend/algorithms.py is called on the
\* input graph
CallBDinic ==
  /\ pc = "idle"
  /\ ret["bek"] # NoRet
  /\ ret["bdinic"] = NoRet
  /\ EnterBDinic(graph)
  /\ UNCHANGED graph0
  /\ UNCHANGED appVars
  /\ UNCHANGED callVars
  /\ UNCHANGED uiVars

\* level = bfs_level() reaches the sink: start is reset
BDinicPhase ==
  /\ pc = "bdinic_bfs"
  /\ LET lev == b_bfs_level(res, source, sink)
     IN /\ lev # None
        /\ level' = lev
  /\ it' = StartOf(graph)
  /\ pc' = "bdinic_dfs"
  /\ UNCHANGED <<graph, source, sink, res, shared, flow, parent, bottleneck,
                 adj, pushed, flow_dict, ret, graph0, path>>
  /\ UNCHANGED appVars
  /\ UNCHANGED callVars
  /\ UNCHANGED uiVars

\* level = bfs_level() is None: break, and return max_flow
BDinicReturn ==
  /\ pc = "bdinic_bfs"
  /\ b_bfs_level(res, source, sink) = None
  /\ level' = None
  /\ ret' = [ret EXCEPT !["bdinic"] = flow]
  /\ pc' = "idle"
  /\ UNCHANGED <<graph, source, sink, res, shared, flow, parent, bottleneck,
                 adj, it, pushed, flow_dict, graph0, path>>
  /\ UNCHANGED appVars
  /\ UNCHANGED callVars
  /\ UNCHANGED uiVars

\* flow = dfs_flow(source, float('inf'), level, start) is positive
BDinicPush ==
  /\ pc = "bdinic_dfs"
  /\ LET d == dfs_flow(source, FloatInf, sink, level, res, it)
     IN /\ d.f # 0
        /\ res' = d.res
        /\ it' = d.start
        /\ flow' = Plus(flow, d.f)
        /\ bottleneck' = d.f
  /\ graph' = SeenThrough(graph, shared, res')
  /\ UNCHANGED <<source, sink, pc, shared, parent, level, adj, pushed,
                 flow_dict, ret, graph0, path>>
  /\ UNCHANGED appVars
  /\ UNCHANGED callVars
  /\ UNCHANGED uiVars

\* flow = dfs_flow(...) is 0: break out of the inner loop
BDinicPhaseEnd ==
  /\ pc = "bdinic_dfs"
  /\ LET d == dfs_flow(source, FloatInf, sink, level, res, it)
     IN /\ d.f = 0
        /\ res' = d.res
        /\ it' = d.start
  /\ pc' = "bdinic_bfs"
  /\ UNCHANGED <<graph, source, sink, shared, flow, parent, bottleneck, level,
                 adj, pushed, flow_dict, ret, graph0, path>>
  /\ UNCHANGED appVars
  /\ UNCHANGED callVars
  /\ UNCHANGED uiVars

NextBA ==
  \/ CallBEK
  \/ BEKAugment
  \/ BEKReturn
  \/ CallBDinic
  \/ BDinicPhase
  \/ BDinicReturn
  \/ BDinicPush
  \/ BDinicPhaseEnd

SpecBA == Init /\ [][NextBA]_vars

(***************************************************************************)
(* All five solvers called one after the other on the same graph: those of *)
(* maxflow.py first, then those of Backend/algorithms.py.                  *)
(***************************************************************************)
NextAll ==
  \/ NextMF
  \/ ret["dinic"] # NoRet /\ NextBA

SpecAll == Init /\ [][NextAll]_vars

(***************************************************************************)
(* A solver called on arbitrary arguments: graphs with negative            *)
(* capacities and antiparallel edges, a source or sink that is no node of  *)
(* the graph, source = sink.  One solver, freely chosen, is called, and    *)
(* after it has returned it may be called once more on the same graph.     *)
(***************************************************************************)
InNodes == <<"A", "B", "T">>

InNodesNoSink == <<"B", "A">>

InEdges == << <<"A", "B">>, <<"B", "A">>, <<"B", "T">>, <<"A", "T">> >>

\* the sink "T" is a key of the graph and no edge leads to it
InEdgesNoIn == << <<"A", "B">>, <<"B", "A">>, <<"T", "B">> >>

InCaps == {-1, 0, 1, MaxCap}

InGraphs ==
  UNION { {MakeGraph(ns, es, caps) : caps \in [1..Len(es) -> InCaps]}
          : <<ns, es>> \in { <<InNodes, InEdges>>,
                             <<InNodesNoSink, Reverse(InEdges)>>,
                             <<InNodes, InEdgesNoIn>> } }

InitIn ==
  /\ graph \in InGraphs
  /\ graph0 = graph
  /\ source \in {"A", "T", "Z"}
  /\ sink \in {"A", "T", "Z"}
  /\ InitLocals
  /\ AppIdle
  /\ CallIdle
  /\ UiIdle

\* the first statements of solver a called with graph g
Enter(a, g) ==
  CASE a \in {"ek", "ekf"} -> EnterEK(a, g)
    [] a = "dinic"         -> EnterDinic(g)
    [] a = "bek"           -> EnterBEK(g)
    [] a = "bdinic"        -> EnterBDinic(g)

\* no solver has been called yet: solver a is called
CallOne(a) ==
  /\ pc = "idle"
  /\ \A b \in Solvers : ret[b] = NoRet /\ raised[b] = "none"
  /\ Enter(a, graph)
  /\ UNCHANGED graph0
  /\ UNCHANGED appVars
  /\ UNCHANGED callVars
  /\ UNCHANGED uiVars

\* solver a has returned: the caller keeps the result and calls a again
CallAgain(a) ==
  /\ pc = "idle"
  /\ ret[a] # NoRet
  /\ first = <<>>
  /\ first' = [solver |-> a, ret |-> ret[a], flow_dict |-> flow_dict]
  /\ Enter(a, graph)
  /\ UNCHANGED <<graph0, raised>>
  /\ UNCHANGED appVars
  /\ UNCHANGED uiVars

\* res[u] of the first round of the search raises KeyError: s is no key of
\* the residual (edmonds_karp, edmonds_karp_with_flows)
EKRaise(a) ==
  /\ pc = a
  /\ ~DHas(res, source)
  /\ raised' = [raised EXCEPT ![a] = "KeyError"]
  /\ pc' = "idle"
  /\ UNCHANGED solverLocals
  /\ UNCHANGED <<graph, source, sink, flow_dict, ret, graph0, path, first>>
  /\ UNCHANGED appVars
  /\ UNCHANGED uiVars

\* res[u] of bfs_level raises KeyError: s is no key of the residual
DinicRaise ==
  /\ pc = "dinic_bfs"
  /\ ~DHas(res, source)
  /\ raised' = [raised EXCEPT !["dinic"] = "KeyError"]
  /\ pc' = "idle"
  /\ UNCHANGED solverLocals
  /\ UNCHANGED <<graph, source, sink, flow_dict, ret, graph0, path, first>>
  /\ UNCHANGED appVars
  /\ UNCHANGED uiVars

NextIn ==
  \/ \E a \in Solvers : CallOne(a) \/ CallAgain(a)
  \/ \E a \in {"ek", "ekf"} : EKAugment(a) \/ EKReturn(a) \/ EKRaise(a)
  \/ DinicPhase
  \/ DinicReturn
  \/ DinicPush
  \/ DinicPhaseEnd
  \/ DinicRaise
  \/ BEKAugment
  \/ BEKReturn
  \/ BDinicPhase
  \/ BDinicReturn
  \/ BDinicPush
  \/ BDinicPhaseEnd

SpecIn == InitIn /\ [][NextIn]_vars

(***************************************************************************)
(* The cross-validated computation: _compute_and_handle of app.py, run on  *)
(* a worker thread while the UI thread may run new_round, and submit_guess *)
(* of Backend/main.py, run while another request may run new_game.         *)
(* One computation is followed from its start to its end.                  *)
(***************************************************************************)
NODES == <<"A", "B", "C", "D", "E", "F", "G", "H", "T">>

EDGES == << <<"A", "B">>, <<"A", "C">>, <<"A", "D">>,
            <<"B", "E">>, <<"B", "F">>,
            <<"C", "E">>, <<"C", "F">>,
            <<"D", "F">>,
            <<"E", "G">>, <<"E", "H">>,
            <<"F", "H">>,
            <<"G", "T">>, <<"H", "T">> >>

MIN_CAPACITY == 5

MAX_CAPACITY == 15

\* rounds after which no further graph is generated
MaxRound == 3

\* the capacity lists random.randint(MIN_CAPACITY, MAX_CAPACITY) is taken to
\* deliver: all lowest, all highest, and one mixed list
Draws ==
  { [i \in 1..Len(EDGES) |-> MIN_CAPACITY],
    [i \in 1..Len(EDGES) |-> MAX_CAPACITY],
    [i \in 1..Len(EDGES) |->
       MIN_CAPACITY + ((7 * i) % (MAX_CAPACITY - MIN_CAPACITY + 1))] }

\* the graphs generate_random_capacity_graph() returns
GameGraphs == {MakeGraph(NODES, EDGES, caps) : caps \in Draws}

\* the guesses a player enters: 0 and the maximum flow of each graph
Guesses == {0} \cup {MinCut(g, "A", "T") : g \in GameGraphs}

InitCV ==
  /\ graph = <<>>
  /\ graph0 = <<>>
  /\ source = "A"
  /\ sink = "T"
  /\ InitLocals
  /\ prog \in {"app", "api"}
  /\ current_graph \in GameGraphs
  /\ round = 1
  /\ cv_pc = "copy_ek"
  /\ guess \in Guesses
  /\ graph_copy = <<>>
  /\ graph_copy2 = <<>>
  /\ ek_flow = NoRet
  /\ dinic_flow = NoRet
  /\ correct_flow = NoRet
  /\ alg_disagree = FALSE
  /\ algorithms_agree = FALSE
  /\ is_correct = FALSE
  /\ saved = <<>>
  /\ outcome = "none"
  /\ CallIdle
  /\ UiIdle

\* new_round of app.py, on the UI thread
NewRound ==
  /\ prog = "app"
  /\ round < MaxRound
  /\ current_graph' \in GameGraphs
  /\ round' = round + 1
  /\ UNCHANGED <<prog, cv_pc, guess, graph_copy, graph_copy2, ek_flow,
                 dinic_flow, correct_flow, alg_disagree, algorithms_agree,
                 is_correct, saved, outcome>>
  /\ UNCHANGED solverVars
  /\ UNCHANGED callVars
  /\ UNCHANGED uiVars

\* graph_copy = {u:dict(vs) for u,vs in self.current_graph.items()}
AppCopy1 ==
  /\ prog = "app"
  /\ cv_pc = "copy_ek"
  /\ graph_copy' = CopyGraph(current_graph)
  /\ cv_pc' = "run_ek"
  /\ UNCHANGED <<prog, current_graph, round, guess, graph_copy2, ek_flow,
                 dinic_flow, correct_flow, alg_disagree, algorithms_agree,
                 is_correct, saved, outcome>>
  /\ UNCHANGED solverVars
  /\ UNCHANGED callVars
  /\ UNCHANGED uiVars

\* ek_flow = edmonds_karp(graph_copy, "A", "T"): the call
AppRunEK ==
  /\ prog = "app"
  /\ cv_pc = "run_ek"
  /\ EnterEK("ek", graph_copy)
  /\ graph0' = graph_copy
  /\ cv_pc' = "in_ek"
  /\ UNCHANGED <<prog, current_graph, round, guess, graph_copy, graph_copy2,
                 ek_flow, dinic_flow, correct_flow, alg_disagree,
                 algorithms_agree, is_correct, saved, outcome>>
  /\ UNCHANGED callVars
  /\ UNCHANGED uiVars

\* ek_flow = edmonds_karp(graph_copy, "A", "T"): the call has returned
AppEKFlow ==
  /\ prog = "app"
  /\ cv_pc = "in_ek"
  /\ pc = "idle"
  /\ ek_flow' = ret["ek"]
  /\ cv_pc' = "copy_dinic"
  /\ UNCHANGED <<prog, current_graph, round, guess, graph_copy, graph_copy2,
                 dinic_flow, correct_flow, alg_disagree, algorithms_agree,
                 is_correct, saved, outcome>>
  /\ UNCHANGED solverVars
  /\ UNCHANGED callVars
  /\ UNCHANGED uiVars

\* graph_copy2 = {u:dict(vs) for u,vs in self.current_graph.items()}
AppCopy2 ==
  /\ prog = "app"
  /\ cv_pc = "copy_dinic"
  /\ graph_copy2' = CopyGraph(current_graph)
  /\ cv_pc' = "run_dinic"
  /\ UNCHANGED <<prog, current_graph, round, guess, graph_copy, ek_flow,
                 dinic_flow, correct_flow, alg_disagree, algorithms_agree,
                 is_correct, saved, outcome>>
  /\ UNCHANGED solverVars
  /\ UNCHANGED callVars
  /\ UNCHANGED uiVars

\* dinic_flow = dinic(graph_copy2, "A", "T"): the call
AppRunDinic ==
  /\ prog = "app"
  /\ cv_pc = "run_dinic"
  /\ EnterDinic(graph_copy2)
  /\ graph0' = graph_copy2
  /\ cv_pc' = "in_dinic"
  /\ UNCHANGED <<prog, current_graph, round, guess, graph_copy, graph_copy2,
                 ek_flow, dinic_flow, correct_flow, alg_disagree,
                 algorithms_agree, is_correct, saved, outcome>>
  /\ UNCHANGED callVars
  /\ UNCHANGED uiVars

\* dinic_flow = dinic(graph_copy2, "A", "T"): the call has returned
AppDinicFlow ==
  /\ prog = "app"
  /\ cv_pc = "in_dinic"
  /\ pc = "idle"
  /\ dinic_flow' = ret["dinic"]
  /\ cv_pc' = "reconcile"
  /\ UNCHANGED <<prog, current_graph, round, guess, graph_copy, graph_copy2,
                 ek_flow, correct_flow, alg_disagree, algorithms_agree,
                 is_correct, saved, outcome>>
  /\ UNCHANGED solverVars
  /\ UNCHANGED callVars
  /\ UNCHANGED uiVars

\* correct_flow is ek_flow whatever dinic returned
AppCorrectFlowEKOnly(ek, dn) == ek

\* correct_flow = ek_flow; if dinic_flow != ek_flow: max(ek_flow, dinic_flow)
AppCorrectFlow(ek, dn) == IF dn # ek THEN Max2(ek, dn) ELSE ek

\* alg_disagree = False; if dinic_flow != ek_flow: alg_disagree = True
AppDisagree(ek, dn) == IF dn # ek THEN TRUE ELSE FALSE

\* the reconciliation of _compute_and_handle and is_correct
AppReconcile ==
  /\ prog = "app"
  /\ cv_pc = "reconcile"
  /\ correct_flow' = AppCorrectFlow(ek_flow, dinic_flow)
  /\ alg_disagree' = AppDisagree(ek_flow, dinic_flow)
  /\ is_correct' = (guess = correct_flow')
  /\ cv_pc' = "save"
  /\ UNCHANGED <<prog, current_graph, round, guess, graph_copy, graph_copy2,
                 ek_flow, dinic_flow, algorithms_agree, saved, outcome>>
  /\ UNCHANGED solverVars
  /\ UNCHANGED callVars
  /\ UNCHANGED uiVars

\* save_game_result(...) with is_correct=1 or is_correct=0 returns; the
\* result lines are appended
AppSave ==
  /\ prog = "app"
  /\ cv_pc = "save"
  /\ saved' = Append(saved, [guess |-> guess, correct_flow |-> correct_flow,
                             is_correct |-> IF is_correct THEN 1 ELSE 0])
  /\ outcome' = "ok"
  /\ cv_pc' = "done"
  /\ UNCHANGED <<prog, current_graph, round, guess, graph_copy, graph_copy2,
                 ek_flow, dinic_flow, correct_flow, alg_disagree,
                 algorithms_agree, is_correct>>
  /\ UNCHANGED solverVars
  /\ UNCHANGED callVars
  /\ UNCHANGED uiVars

\* save_game_result(...) raises (sqlite3): except Exception appends the error
AppSaveFails ==
  /\ prog = "app"
  /\ cv_pc = "save"
  /\ outcome' = "error"
  /\ cv_pc' = "done"
  /\ UNCHANGED <<prog, current_graph, round, guess, graph_copy, graph_copy2,
                 ek_flow, dinic_flow, correct_flow, alg_disagree,
                 algorithms_agree, is_correct, saved>>
  /\ UNCHANGED solverVars
  /\ UNCHANGED callVars
  /\ UNCHANGED uiVars

\* app.py imports edmonds_karp and dinic from maxflow.py
NextApp ==
  \/ NewRound
  \/ AppCopy1
  \/ AppRunEK
  \/ EKAugment("ek")
  \/ EKReturn("ek")
  \/ AppEKFlow
  \/ AppCopy2
  \/ AppRunDinic
  \/ DinicPhase
  \/ DinicReturn
  \/ DinicPush
  \/ DinicPhaseEnd
  \/ AppDinicFlow
  \/ AppReconcile
  \/ AppSave
  \/ AppSaveFails

\* new_game of Backend/main.py, serving another request
NewGame ==
  /\ prog = "api"
  /\ round < MaxRound
  /\ current_graph' \in GameGraphs
  /\ round' = round + 1
  /\ UNCHANGED <<prog, cv_pc, guess, graph_copy, graph_copy2, ek_flow,
                 dinic_flow, correct_flow, alg_disagree, algorithms_agree,
                 is_correct, saved, outcome>>
  /\ UNCHANGED solverVars
  /\ UNCHANGED callVars
  /\ UNCHANGED uiVars

\* graph_ek = {u: dict(vs) for u, vs in game_state['current_graph'].items()}
ApiCopyEK ==
  /\ prog = "api"
  /\ cv_pc = "copy_ek"
  /\ graph_copy' = CopyGraph(current_graph)
  /\ cv_pc' = "copy_dinic"
  /\ UNCHANGED <<prog, current_graph, round, guess, graph_copy2, ek_flow,
                 dinic_flow, correct_flow, alg_disagree, algorithms_agree,
                 is_correct, saved, outcome>>
  /\ UNCHANGED solverVars
  /\ UNCHANGED callVars
  /\ UNCHANGED uiVars

\* graph_dinic = {u: dict(vs) for u, vs in game_state['current_graph'].items()}
ApiCopyDinic ==
  /\ prog = "api"
  /\ cv_pc = "copy_dinic"
  /\ graph_copy2' = CopyGraph(current_graph)
  /\ cv_pc' = "run_ek"
  /\ UNCHANGED <<prog, current_graph, round, guess, graph_copy, ek_flow,
                 dinic_flow, correct_flow, alg_disagree, algorithms_agree,
                 is_correct, saved, outcome>>
  /\ UNCHANGED solverVars
  /\ UNCHANGED callVars
  /\ UNCHANGED uiVars

\* ek_flow, ek_flow_dict = edmonds_karp_with_flows(graph_ek, "A", "T"): the call
ApiRunEK ==
  /\ prog = "api"
  /\ cv_pc = "run_ek"
  /\ EnterBEK(graph_copy)
  /\ graph0' = graph_copy
  /\ cv_pc' = "in_ek"
  /\ UNCHANGED <<prog, current_graph, round, guess, graph_copy, graph_copy2,
                 ek_flow, dinic_flow, correct_flow, alg_disagree,
                 algorithms_agree, is_correct, saved, outcome>>
  /\ UNCHANGED callVars
  /\ UNCHANGED uiVars

\* ek_flow, ek_flow_dict = edmonds_karp_with_flows(graph_ek, "A", "T"): the call has returned
ApiEKFlow ==
  /\ prog = "api"
  /\ cv_pc = "in_ek"
  /\ pc = "idle"
  /\ ek_flow' = ret["bek"]
  /\ cv_pc' = "run_dinic"
  /\ UNCHANGED <<prog, current_graph, round, guess, graph_copy, graph_copy2,
                 dinic_flow, correct_flow, alg_disagree, algorithms_agree,
                 is_correct, saved, outcome>>
  /\ UNCHANGED solverVars
  /\ UNCHANGED callVars
  /\ UNCHANGED uiVars

\* dinic_flow = dinic(graph_dinic, "A", "T"): the call
ApiRunDinic ==
  /\ prog = "api"
  /\ cv_pc = "run_dinic"
  /\ EnterBDinic(graph_copy2)
  /\ graph0' = graph_copy2
  /\ cv_pc' = "in_dinic"
  /\ UNCHANGED <<prog, current_graph, round, guess, graph_copy, graph_copy2,
                 ek_flow, dinic_flow, correct_flow, alg_disagree,
                 algorithms_agree, is_correct, saved, outcome>>
  /\ UNCHANGED callVars
  /\ UNCHANGED uiVars

\* dinic_flow = dinic(graph_dinic, "A", "T"): the call has returned
ApiDinicFlow ==
  /\ prog = "api"
  /\ cv_pc = "in_dinic"
  /\ pc = "idle"
  /\ dinic_flow' = ret["bdinic"]
  /\ cv_pc' = "reconcile"
  /\ UNCHANGED <<prog, current_graph, round, guess, graph_copy, graph_copy2,
                 ek_flow, correct_flow, alg_disagree, algorithms_agree,
                 is_correct, saved, outcome>>
  /\ UNCHANGED solverVars
  /\ UNCHANGED callVars
  /\ UNCHANGED uiVars

\* algorithms_agree = (ek_flow == dinic_flow)
ApiAgree(ek, dn) == ek = dn

\* correct_flow = ek_flow; if not algorithms_agree: max(ek_flow, dinic_flow)
ApiCorrectFlow(ek, dn) == IF ~ApiAgree(ek, dn) THEN Max2(ek, dn) ELSE ek

\* the reconciliation of submit_guess and is_correct
ApiReconcile ==
  /\ prog = "api"
  /\ cv_pc = "reconcile"
  /\ algorithms_agree' = ApiAgree(ek_flow, dinic_flow)
  /\ correct_flow' = ApiCorrectFlow(ek_flow, dinic_flow)
  /\ is_correct' = (guess = correct_flow')
  /\ cv_pc' = "save"
  /\ UNCHANGED <<prog, current_graph, round, guess, graph_copy, graph_copy2,
                 ek_flow, dinic_flow, alg_disagree, saved, outcome>>
  /\ UNCHANGED solverVars
  /\ UNCHANGED callVars
  /\ UNCHANGED uiVars

\* db.save_game_result(...) returns; the result is sent with success True
ApiSave ==
  /\ prog = "api"
  /\ cv_pc = "save"
  /\ saved' = Append(saved, [guess |-> guess, correct_flow |-> correct_flow,
                             is_correct |-> IF is_correct THEN 1 ELSE 0,
                             round_number |-> round])
  /\ outcome' = "ok"
  /\ cv_pc' = "done"
  /\ UNCHANGED <<prog, current_graph, round, guess, graph_copy, graph_copy2,
                 ek_flow, dinic_flow, correct_flow, alg_disagree,
                 algorithms_agree, is_correct>>
  /\ UNCHANGED solverVars
  /\ UNCHANGED callVars
  /\ UNCHANGED uiVars

\* db.save_game_result(...) raises: except Exception answers with status 500
ApiSaveFails ==
  /\ prog = "api"
  /\ cv_pc = "save"
  /\ outcome' = "error"
  /\ cv_pc' = "done"
  /\ UNCHANGED <<prog, current_graph, round, guess, graph_copy, graph_copy2,
                 ek_flow, dinic_flow, correct_flow, alg_disagree,
                 algorithms_agree, is_correct, saved>>
  /\ UNCHANGED solverVars
  /\ UNCHANGED callVars
  /\ UNCHANGED uiVars

\* Backend/main.py imports edmonds_karp_with_flows and dinic from
\* Backend/algorithms.py
NextApi ==
  \/ NewGame
  \/ ApiCopyEK
  \/ ApiCopyDinic
  \/ ApiRunEK
  \/ BEKAugment
  \/ BEKReturn
  \/ ApiEKFlow
  \/ ApiRunDinic
  \/ BDinicPhase
  \/ BDinicReturn
  \/ BDinicPush
  \/ BDinicPhaseEnd
  \/ ApiDinicFlow
  \/ ApiReconcile
  \/ ApiSave
  \/ ApiSaveFails

NextCV == NextApp \/ NextApi

SpecCV == InitCV /\ [][NextCV]_vars

(***************************************************************************)
(* The windows of app.py ("app") and app_debug.py ("dbg"): the UI thread   *)
(* runs the event handlers and the callbacks handed to self.after(0, ...)  *)
(* one at a time; each accepted submission starts a worker thread.  What   *)
(* a worker computes is the subject of SpecCV; here its try block either   *)
(* completes or raises.                                                    *)
(***************************************************************************)
\* submissions after which no further one is entered
MaxSubmits == 2

\* the locals of the cross-validated computation
cvLocals == <<cv_pc, guess, graph_copy, graph_copy2, ek_flow, dinic_flow,
              correct_flow, alg_disagree, algorithms_agree, is_correct, saved,
              outcome>>

InitUI ==
  /\ graph = <<>>
  /\ graph0 = <<>>
  /\ source = "A"
  /\ sink = "T"
  /\ InitLocals
  /\ prog \in {"app", "dbg"}
  /\ current_graph \in GameGraphs
  /\ round = 1
  /\ cv_pc = "none"
  /\ guess = 0
  /\ graph_copy = <<>>
  /\ graph_copy2 = <<>>
  /\ ek_flow = NoRet
  /\ dinic_flow = NoRet
  /\ correct_flow = NoRet
  /\ alg_disagree = FALSE
  /\ algorithms_agree = FALSE
  /\ is_correct = FALSE
  /\ saved = <<>>
  /\ outcome = "none"
  /\ CallIdle
  /\ UiIdle

\* the worker threads that have not ended
InFlight == {i \in DOMAIN threads : threads[i] \notin {"ended", "ended_exc"}}

\* if self.is_processing: ... return, never taken
ProcessingNever(p) == FALSE

\* if self.is_processing: ... return (on_submit and new_round of
\* app_debug.py); app.py has no such test
Processing(p) == p = "dbg" /\ is_processing

\* the events that call on_submit: a click on the submit button, which a
\* disabled button ignores, and the Return key bound on the guess entry
\* (both programs) and on the name entry (app.py)
SubmitEvents == {"click", "return"}

\* on_submit, called by event e with entries that validate_inputs accepts
\* (valid) or rejects
OnSubmit(e, valid) ==
  /\ e \in SubmitEvents
  /\ e = "click" => play_btn = "normal"
  /\ submits < MaxSubmits
  /\ ~Processing(prog)
  /\ valid
  /\ is_processing' = (IF prog = "dbg" THEN TRUE ELSE is_processing)
  /\ play_btn' = "disabled"
  /\ new_round_btn' = (IF prog = "dbg" THEN "disabled" ELSE new_round_btn)
  /\ threads' = Append(threads, "try")
  /\ accepted' = [graph |-> current_graph, round |-> round]
  /\ submits' = submits + 1
  /\ UNCHANGED <<prog, current_graph, round, after_q>>
  /\ UNCHANGED cvLocals
  /\ UNCHANGED solverVars
  /\ UNCHANGED callVars

\* new_round, called by a click on the new-round button
UiNewRound ==
  /\ new_round_btn = "normal"
  /\ ~Processing(prog)
  /\ round < MaxRound
  /\ current_graph' \in GameGraphs
  /\ round' = round + 1
  /\ UNCHANGED prog
  /\ UNCHANGED cvLocals
  /\ UNCHANGED solverVars
  /\ UNCHANGED callVars
  /\ UNCHANGED uiVars

\* the finally clause hands the re-enabling callback to self.after only when
\* the try block completed
PostsFinishOnSuccess(ok) == ok

\* finally: self.after(0, finish_ui) / self.after(0, self._finish_processing),
\* whether the try block completed (ok) or raised
PostsFinish(ok) == TRUE

\* the try block of worker i completes (ok) or raises and is caught by
\* except Exception: either way one callback that shows the text is handed to
\* self.after
WorkerTry(i, ok) ==
  /\ i \in DOMAIN threads
  /\ threads[i] = "try"
  /\ threads' = [threads EXCEPT ![i] = IF ok THEN "finally" ELSE "finally_exc"]
  /\ after_q' = Append(after_q, "display")
  /\ UNCHANGED <<play_btn, new_round_btn, is_processing, accepted, submits>>
  /\ UNCHANGED appVars
  /\ UNCHANGED solverVars
  /\ UNCHANGED callVars

\* the finally clause of worker i; the thread ends
WorkerFinally(i) ==
  /\ i \in DOMAIN threads
  /\ threads[i] \in {"finally", "finally_exc"}
  /\ threads' = [threads EXCEPT
                   ![i] = IF threads[i] = "finally" THEN "ended" ELSE "ended_exc"]
  /\ after_q' = IF PostsFinish(threads[i] = "finally")
                THEN Append(after_q, "finish") ELSE after_q
  /\ UNCHANGED <<play_btn, new_round_btn, is_processing, accepted, submits>>
  /\ UNCHANGED appVars
  /\ UNCHANGED solverVars
  /\ UNCHANGED callVars

\* the event loop runs the oldest callback: _ui / _display_results shows the
\* text; finish_ui / _finish_processing enables the buttons again
RunAfter ==
  /\ after_q # <<>>
  /\ after_q' = Tail(after_q)
  /\ IF Head(after_q) = "finish"
     THEN /\ play_btn' = "normal"
          /\ new_round_btn' = (IF prog = "dbg" THEN "normal" ELSE new_round_btn)
          /\ is_processing' = (IF prog = "dbg" THEN FALSE ELSE is_processing)
     ELSE UNCHANGED <<play_btn, new_round_btn, is_processing>>
  /\ UNCHANGED <<threads, accepted, submits>>
  /\ UNCHANGED appVars
  /\ UNCHANGED solverVars
  /\ UNCHANGED callVars

WorkerStep == \E i \in DOMAIN threads : WorkerFinally(i) \/ \E ok \in BOOLEAN : WorkerTry(i, ok)

NextUI ==
  \/ \E e \in SubmitEvents, valid \in BOOLEAN : OnSubmit(e, valid)
  \/ UiNewRound
  \/ WorkerStep
  \/ RunAfter

SpecUI == InitUI /\ [][NextUI]_vars

\* the worker threads and the event loop keep running
SpecUIFair == SpecUI /\ WF_vars(WorkerStep) /\ WF_vars(RunAfter)

C2_EKEqualsDinic ==
  ret["dinic"] # NoRet => ret["dinic"] = ret["ek"]

\* both have returned, with a value of at least 2; dinic ran at least one
\* phase and stopped when no level graph reached the sink
C2_Witness ==
  /\ ret["dinic"] # NoRet
  /\ ret["ek"] >= 2
  /\ adj # <<>>
  /\ level = None

\* C3: the flow_dict of edmonds_karp_with_flows (maxflow.py) conserves flow
\* at every node other than source and sink.
C3_SubtractionConserves ==
  ret["ekf"] # NoRet => Conserved(graph0, flow_dict, source, sink)

\* edmonds_karp_with_flows has returned a positive flow on a graph with an
\* antiparallel pair, one edge of which ended with more residual than
\* capacity (its difference was clamped)
C3_Witness ==
  /\ ret["ekf"] # NoRet
  /\ ret["dinic"] = NoRet
  /\ pc = "idle"
  /\ ret["ekf"] > 0
  /\ \E e \in EdgesOf(graph0) :
        /\ <<e[2], e[1]>> \in EdgesOf(graph0)
        /\ DGet2(graph0, e[1], e[2]) < DGet2(res, e[1], e[2])
        /\ flow_dict[<<e[2], e[1]>>] > 0

\* C4: every entry of the flow_dict of edmonds_karp_with_flows (maxflow.py)
\* lies between 0 and the capacity of its edge.
C4_SubtractionWithinCapacity ==
  ret["ekf"] # NoRet => WithinCapacity(graph0, flow_dict)

\* edmonds_karp_with_flows has returned a positive flow on a graph that has
\* a zero-capacity edge, which carries 0, and a saturated positive edge
C4_Witness ==
  /\ ret["ekf"] # NoRet
  /\ ret["dinic"] = NoRet
  /\ pc = "idle"
  /\ ret["ekf"] > 0
  /\ \E e \in EdgesOf(graph0) :
        DGet2(graph0, e[1], e[2]) = 0 /\ flow_dict[e] = 0
  /\ \E e \in EdgesOf(graph0) :
        DGet2(graph0, e[1], e[2]) > 0 /\ flow_dict[e] = DGet2(graph0, e[1], e[2])

(***************************************************************************)
(* Claims about Backend/algorithms.py, checked under SpecBA.               *)
(***************************************************************************)
\* C5: the incrementally tracked flow_dict of edmonds_karp_with_flows
\* (Backend/algorithms.py) conserves flow at every node other than source
\* and sink.
C5_TrackedConserves ==
  ret["bek"] # NoRet => Conserved(graph0, flow_dict, source, sink)

\* C6: every entry of the incrementally tracked flow_dict lies between 0 and
\* the capacity of its edge.
C6_TrackedWithinCapacity ==
  ret["bek"] # NoRet => WithinCapacity(graph0, flow_dict)

\* C7: edmonds_karp_with_flows and dinic of Backend/algorithms.py return
\* the same value.
C7_BackendSolversAgree ==
  ret["bdinic"] # NoRet => ret["bdinic"] = ret["bek"]

\* both have returned a value of at least 2 on a graph with an antiparallel
\* pair whose sink is only an edge target
C7_Witness ==
  /\ ret["bdinic"] # NoRet
  /\ ret["bek"] >= 2
  /\ ~DHas(graph0, sink)
  /\ \E e \in EdgesOf(graph0) : <<e[2], e[1]>> \in EdgesOf(graph0)

C9_Reconciliation ==
  cv_pc \in {"save", "done"} =>
    /\ cv_pc = "save" => outcome = "none"
    /\ correct_flow = IF ek_flow = dinic_flow THEN ek_flow
                      ELSE Max2(ek_flow, dinic_flow)
    /\ prog = "app" => (~alg_disagree <=> ek_flow = dinic_flow)
    /\ prog = "api" => (algorithms_agree <=> ek_flow = dinic_flow)

\* a computation has ended without error although dinic returned more than
\* edmonds_karp
C9_Witness ==
  /\ cv_pc = "done"
  /\ outcome = "ok"
  /\ dinic_flow > ek_flow
  /\ ek_flow > 0

\* C10: whenever both copies of a computation exist, the copy Edmonds-Karp
\* runs on and the copy Dinic runs on are copies of the same graph.
C10_SameSnapshot ==
  (graph_copy # <<>> /\ graph_copy2 # <<>>) => graph_copy = graph_copy2

(***************************************************************************)
(* Claims about a solver called on arbitrary arguments, checked under      *)
(* SpecIn.                                                                 *)
(***************************************************************************)
\* the round of while True that edmonds_karp / edmonds_karp_with_flows is
\* about to run finds a path and ends in the very state it starts in
EKRoundRepeats ==
  /\ pc \in {"ek", "ekf"}
  /\ DHas(res, source)
  /\ LET par == EKParent(res, source, sink)
         b   == EKBottleneck([v |-> sink, b |-> FloatInf], res, par, source)
     IN /\ sink \in DOMAIN par
        /\ par = parent
        /\ b = bottleneck
        /\ EKApply([v |-> sink, r |-> res], par, source, b) = res
        /\ Plus(flow, b) = flow

\* C11: whatever the graph, the source and the sink, a solver that has been
\* called ends: it returns or raises, it does not stay in its loop forever.
\* A run is a deterministic sequence of rounds, so a round that ends in the
\* state it started in is repeated forever: no run reaches such a round.
C11_Terminates == ~EKRoundRepeats

\* the graph has an edge of negative capacity
HasNegative(g) == \E e \in EdgesOf(g) : DGet2(g, e[1], e[2]) < 0

\* C12: when the graph has an edge of negative capacity, a solver call fails
\* before any search begins and returns no flow value: no solver is ever in
\* its loop and none has a return value.
C12_NegativeRejected ==
  HasNegative(graph0) => pc = "idle" /\ \A a \in Solvers : ret[a] = NoRet

\* C13: when the source or the sink is no node of the graph (neither a key
\* nor an edge target), a solver call returns no result.
C13_MissingNodeRejected ==
  (source \notin NodesOf(graph0) \/ sink \notin NodesOf(graph0))
    => \A a \in Solvers : ret[a] = NoRet

\* nodes reachable from the nodes of S through edges of positive capacity
RECURSIVE ReachSet(_, _)
ReachSet(g, S) ==
  LET N == S \cup {e[2] : e \in {d \in EdgesOf(g) : d[1] \in S /\ DGet2(g, d[1], d[2]) > 0}}
  IN IF N = S THEN S ELSE ReachSet(g, N)

UnreachableSink ==
  /\ source \in NodesOf(graph0)
  /\ sink \in NodesOf(graph0)
  /\ sink \notin ReachSet(graph0, {source})

\* C14: when source and sink are nodes of the graph and the sink is not
\* reachable from the source through edges of positive capacity, no solver
\* call raises, no augmentation happens (the running total stays 0, or not
\* yet bound in dinic) and the value a solver returns is 0.
C14_UnreachableZero ==
  UnreachableSink =>
    /\ pc \notin {"idle", "dinic_bfs", "dinic_dfs"} => flow = 0
    /\ pc \in {"dinic_bfs", "dinic_dfs"} => flow \in {Unbound, 0}
    /\ \A a \in Solvers : raised[a] = "none" /\ ret[a] \in {NoRet, 0}

\* a solver has returned 0 where the source has an outgoing edge of positive
\* capacity and the sink is only an edge target, never a key of the graph
C14_Witness ==
  /\ UnreachableSink
  /\ pc = "idle"
  /\ \E a \in Solvers : ret[a] = 0
  /\ ~DHas(graph0, sink)
  /\ \E e \in EdgesOf(graph0) : e[1] = source /\ DGet2(graph0, e[1], e[2]) > 0

\* the sink is a node of the graph that no edge leads to, and the source is
\* a node too
NoIncoming ==
  /\ source \in NodesOf(graph0)
  /\ sink \in NodesOf(graph0)
  /\ \A e \in EdgesOf(graph0) : e[2] # sink

\* C15 as stated: when the sink has no incoming edge, a flow-tracking call
\* that has returned gave 0 and an empty flow assignment, and did not raise.
C15_EmptyAssignment ==
  NoIncoming =>
    \A a \in {"ekf", "bek"} :
      /\ raised[a] = "none"
      /\ ret[a] # NoRet => ret[a] = 0 /\ DOMAIN flow_dict = {}

\* C15 amended: when the sink has no incoming edge, a flow-tracking call
\* that has returned gave 0 and a flow assignment holding every original
\* edge of the graph with flow 0, and did not raise.
C15_ZeroAssignment ==
  NoIncoming =>
    \A a \in {"ekf", "bek"} :
      /\ raised[a] = "none"
      /\ ret[a] # NoRet =>
           /\ ret[a] = 0
           /\ DOMAIN flow_dict = EdgesOf(graph0)
           /\ \A e \in DOMAIN flow_dict : flow_dict[e] = 0

\* edmonds_karp_with_flows has returned for a sink without incoming edges
\* where the source has an outgoing edge of positive capacity
C15_Witness ==
  /\ NoIncoming
  /\ pc = "idle"
  /\ ret["ekf"] = 0
  /\ DOMAIN flow_dict = EdgesOf(graph0)
  /\ \E e \in EdgesOf(graph0) : e[1] = source /\ DGet2(graph0, e[1], e[2]) > 0

\* r is the residual graph the contract of _build_residual asks for g
BuiltRight(g, r) ==
  /\ \A n \in NodesOf(g) : DHas(r, n)
  /\ \A e \in EdgesOf(g) :
       /\ DHas(DGet(r, e[1]), e[2])
       /\ DGet2(r, e[1], e[2]) = CapOf(g, e[1], e[2])
       /\ <<e[2], e[1]>> \notin EdgesOf(g) =>
            DHas(DGet(r, e[2]), e[1]) /\ DGet2(r, e[2], e[1]) = 0

\* C16: the residual graph a solver of maxflow.py starts from holds every
\* node that is a key or an edge target, every original edge at its capacity
\* and a reverse entry 0 for every original edge without an opposite edge,
\* for each key order of the input and with both (u,v) and (v,u) present.
C16_BuildResidual ==
  [][pc = "idle" /\ pc' \in {"ek", "ekf", "dinic_bfs"} => BuiltRight(graph, res')]_vars

\* a solver starts on a graph whose first key is "B", with both A->B and
\* B->A of positive, different capacity
C16_Witness ==
  /\ pc \in {"ek", "ekf", "dinic_bfs"}
  /\ res = _build_residual(graph0)
  /\ graph0[1][1] = "B"
  /\ CapOf(graph0, "A", "B") = 1
  /\ CapOf(graph0, "B", "A") = MaxCap
  /\ DGet2(res, "A", "B") = 1
  /\ DGet2(res, "B", "A") = MaxCap
  /\ DHas(res, "T")

TotalFlow ==
  (IF flow = Unbound THEN 0 ELSE flow) + (IF pc = "dinic_dfs" THEN pushed ELSE 0)

\* position inside a dinic phase, ordered the way the loop moves on without
\* adding flow: phase with pushes -> next search -> phase without pushes
PhasePos ==
  CASE pc = "dinic_dfs" /\ pushed > 0 -> 2
    [] pc = "dinic_bfs" -> 1
    [] OTHER -> 0

\* what the loop of a running solver can still do: the capacity leaving the
\* source that is not yet used, then the position in the phase
Variant == 3 * (CutCap(graph0, {source}) - TotalFlow) + PhasePos

\* C18: on a graph with non-negative capacities and distinct source and
\* sink, every step of the loop of edmonds_karp, edmonds_karp_with_flows or
\* dinic either returns or lowers a variant that never goes below 0: each
\* augmentation and each push adds at least 1 to a total bounded by the
\* capacity leaving the source, and a dinic phase that pushed nothing ends
\* the loop. No run repeats its loop forever.
C18_VariantDecreases ==
  [][(/\ pc \in {"ek", "ekf", "dinic_bfs", "dinic_dfs"}
      /\ ~HasNegative(graph0)
      /\ source # sink)
       => /\ Variant >= 0
          /\ pc' # "idle" => Variant' < Variant /\ Variant' >= 0
          /\ pc' \in {"ek", "ekf"} => flow' >= flow + 1]_vars

\* dinic is in a later phase, after a phase that added flow, and has pushed
\* flow in this phase too
C18_Witness ==
  /\ pc = "dinic_dfs"
  /\ flow # Unbound
  /\ flow > 0
  /\ pushed > 0

\* C19: while edmonds_karp, edmonds_karp_with_flows or dinic runs, for every
\* original edge (u,v) res[u][v] + res[v][u] equals capacity(u,v) +
\* capacity(v,u), a missing original edge counting as capacity 0.
C19_ResidualConservation ==
  pc \in {"ek", "ekf", "dinic_bfs", "dinic_dfs"} =>
    \A e \in EdgesOf(graph0) :
      DGet2(res, e[1], e[2]) + DGet2(res, e[2], e[1])
        = CapOf(graph0, e[1], e[2]) + CapOf(graph0, e[2], e[1])

\* dinic has pushed flow through B->C where C->B is an original edge of
\* positive capacity too
C19_Witness ==
  /\ pc = "dinic_dfs"
  /\ pushed > 0
  /\ <<"C", "B">> \in EdgesOf(graph0)
  /\ CapOf(graph0, "C", "B") > 0
  /\ DGet2(res, "B", "C") < CapOf(graph0, "B", "C")
  /\ DGet2(res, "C", "B") > CapOf(graph0, "C", "B")

\* (u,v) is an edge of the level graph of the phase that can carry flow
Admissible(u, v) ==
  /\ u \in DOMAIN level
  /\ DHas(res, u) /\ DHas(DGet(res, u), v)
  /\ DGet2(res, u, v) > 0
  /\ LevelGet(level, v) = level[u] + 1

\* nodes the nodes of S reach through admissible edges
RECURSIVE LevelReach(_)
LevelReach(S) ==
  LET N == S \cup {v \in DKeySet(res) : \E u \in S : Admissible(u, v)}
  IN IF N = S THEN S ELSE LevelReach(N)

\* C20: in a dinic phase the cursor it[u] of a node of the level graph has
\* never passed an edge that can still carry flow to the sink, and when dfs
\* from the source returns 0 (the inner loop of the phase ends) the level
\* graph has no source-to-sink path of edges with positive residual capacity
\* leading one level deeper.
C20_BlockingFlow ==
  pc = "dinic_dfs" =>
    /\ \A u \in DOMAIN level : \A i \in 1..it[u] :
         ~(Admissible(u, adj[u][i]) /\ sink \in LevelReach({adj[u][i]}))
    /\ dfs(source, INF, sink, level, adj, res, it).f = 0
         => sink \notin LevelReach({source})

\* the inner loop of a phase ends after two pushes, with a cursor that has
\* moved past an edge and an edge out of the source still not saturated
C20_Witness ==
  /\ pc = "dinic_dfs"
  /\ pushed >= 2
  /\ dfs(source, INF, sink, level, adj, res, it).f = 0
  /\ \E u \in DOMAIN level : it[u] > 0
  /\ \E v \in DKeySet(DGet(res, source)) : Admissible(source, v)

\* C21: when dinic builds the level graph of a phase after an earlier phase
\* (level still holds the earlier phase's levels), the level of the sink is
\* strictly greater than in the earlier phase, and it lies between 1 and the
\* number of nodes minus 1: the phases that push flow are fewer than the nodes.
C21_SinkLevelGrows ==
  [][pc = "dinic_bfs" /\ pc' = "dinic_dfs" =>
       /\ level'[sink] >= 1
       /\ level'[sink] <= Cardinality(NodesOf(graph0)) - 1
       /\ level # None => level'[sink] > level[sink]]_vars

\* dinic is about to build the level graph of a later phase, in which the
\* sink lies two levels deeper than in the phase before
C21_Witness ==
  /\ pc = "dinic_bfs"
  /\ level # None
  /\ DHas(res, source)
  /\ bfs_level(res, source, sink) # None
  /\ bfs_level(res, source, sink)[sink] = level[sink] + 2

\* hops of a shortest path from the nodes of S, k hops from s, to t through
\* edges of positive residual capacity in r; -1 when there is none
RECURSIVE Hops(_, _, _, _)
Hops(r, S, k, t) ==
  IF t \in S THEN k
  ELSE LET N == S \cup {v \in DKeySet(r) :
                          \E u \in S : DHas(r, u) /\ DHas(DGet(r, u), v)
                                       /\ DGet2(r, u, v) > 0}
       IN IF N = S THEN -1 ELSE Hops(r, N, k + 1, t)

\* C22: the path an augmentation of edmonds_karp reads back through the
\* parent pointers runs from the source to the sink over edges whose residual
\* capacity was strictly positive when it was found, and no source-to-sink
\* path of positive-residual edges at that moment has fewer hops.
C22_ShortestAugmentingPath ==
  [][(pc \in {"ek", "ekf"}) /\ pc' = pc =>
       (LET pth == PathTo(parent', source, sink)
        IN /\ pth[1] = source /\ pth[Len(pth)] = sink
           /\ \A i \in 1..(Len(pth) - 1) : DGet2(res, pth[i], pth[i + 1]) > 0
           /\ Len(pth) - 1 = Hops(res, {source}, 0, sink))]_vars

\* the augmentation has used a path of five hops
C22_Witness ==
  /\ pc \in {"ek", "ekf"}
  /\ flow > 0
  /\ sink \in DOMAIN parent
  /\ Len(PathTo(parent, source, sink)) = 6

\* the edges of E form one path from u to t
RECURSIVE IsPath(_, _, _)
IsPath(E, u, t) ==
  IF u = t THEN E = {}
  ELSE /\ Cardinality({e \in E : e[1] = u}) = 1
       /\ LET e == CHOOSE d \in E : d[1] = u IN IsPath(E \ {e}, e[2], t)

\* the entries res[u][v] of a residual graph
Entries(r) == {e \in DKeySet(r) \X DKeySet(r) : DHas(DGet(r, e[1]), e[2])}

\* r2 is r1 after f was subtracted from every forward edge and added to
\* every reverse edge of one path from s to t, nothing else changed
PushedAlongPath(r1, r2, f, s, t) ==
  LET fwd == {e \in Entries(r1) : DGet2(r2, e[1], e[2]) < DGet2(r1, e[1], e[2])}
  IN /\ Entries(r2) = Entries(r1)
     /\ IsPath(fwd, s, t)
     /\ \A e \in fwd : /\ f <= DGet2(r1, e[1], e[2])
                       /\ DGet2(r2, e[1], e[2]) = DGet2(r1, e[1], e[2]) - f
                       /\ DGet2(r2, e[2], e[1]) = DGet2(r1, e[2], e[1]) + f
     /\ \A e \in Entries(r1) :
          e \notin fwd /\ <<e[2], e[1]>> \notin fwd
            => DGet2(r2, e[1], e[2]) = DGet2(r1, e[1], e[2])

\* C23: with non-negative capacities and distinct source and sink, the
\* bottleneck of every augmentation of edmonds_karp is an integer >= 1 and at
\* most the residual capacity of every edge of its path, and every non-zero
\* value dfs returns to dinic is >= 1; either amount is subtracted from every
\* forward edge and added to every reverse edge of one source-to-sink path.
C23_PositivePush ==
  [][(/\ ~HasNegative(graph0)
      /\ source # sink
      /\ \/ pc \in {"ek", "ekf"} /\ pc' = pc
         \/ pc = "dinic_dfs" /\ pc' = pc /\ pushed' # pushed)
       => /\ bottleneck' \in Nat
          /\ bottleneck' >= 1
          /\ PushedAlongPath(res, res', bottleneck', source, sink)
          /\ pc \in {"ek", "ekf"} =>
               LET pth == PathTo(parent', source, sink)
               IN \A i \in 1..(Len(pth) - 1) :
                    bottleneck' <= DGet2(res, pth[i], pth[i + 1])]_vars

\* dfs has pushed MaxCap units in a dinic phase that had pushed before
C23_Witness ==
  /\ pc = "dinic_dfs"
  /\ pushed > MaxCap
  /\ bottleneck = MaxCap

\* original_capacity(u,v) - final_residual(u,v) of the original edge e, as
\* edmonds_karp_with_flows computes it before clamping
SentOn(e) == Sent(DGet2(graph0, e[1], e[2]), ResidualOr0(res, e[1], e[2]))

\* C24 as stated: when edmonds_karp_with_flows (maxflow.py) leaves its loop,
\* original capacity minus final residual is not negative for any original
\* edge, so the clamp to zero is never taken.
C24_ClampNeverTaken ==
  [][pc = "ekf" /\ pc' = "idle" /\ ~HasNegative(graph0) =>
       \A e \in EdgesOf(graph0) : SentOn(e) >= 0]_vars

\* C24 amended: when edmonds_karp_with_flows leaves its loop, original
\* capacity minus final residual of an original edge (u,v) is never below
\* minus the capacity of the opposite edge (v,u); it is not negative for an
\* edge whose opposite edge is absent or has capacity 0, and where it is
\* negative the opposite edge carries at least that much flow.
C24_ClampOnlyAntiparallel ==
  [][pc = "ekf" /\ pc' = "idle" /\ ~HasNegative(graph0) =>
       \A e \in EdgesOf(graph0) :
         /\ SentOn(e) >= 0 - CapOf(graph0, e[2], e[1])
         /\ SentOn(e) < 0 =>
              /\ <<e[2], e[1]>> \in EdgesOf(graph0)
              /\ SentOn(<<e[2], e[1]>>) >= 0 - SentOn(e)]_vars

\* edmonds_karp_with_flows has returned with a residual above the original
\* capacity on B->C: the flow runs through the opposite edge C->B
C24_Witness ==
  /\ pc = "idle"
  /\ ret["ekf"] # NoRet
  /\ ret["dinic"] = NoRet
  /\ SentOn(<<"B", "C">>) < 0
  /\ flow_dict[<<"B", "C">>] = 0
  /\ flow_dict[<<"C", "B">>] > 0

\* C25: with non-negative capacities and distinct source and sink that are
\* nodes of the graph, the max_flow edmonds_karp_with_flows (maxflow.py) has
\* returned equals the flow of the returned flow_dict out of the source minus
\* its flow into the source, and equals its flow into the sink minus its
\* flow out of the sink.
C25_ValueIsNetFlow ==
  (/\ pc = "idle"
   /\ ret["ekf"] # NoRet
   /\ ~HasNegative(graph0)
   /\ source # sink
   /\ {source, sink} \subseteq NodesOf(graph0))
    => /\ ret["ekf"] = FlowOut(graph0, flow_dict, source)
                         - FlowIn(graph0, flow_dict, source)
       /\ ret["ekf"] = FlowIn(graph0, flow_dict, sink)
                         - FlowOut(graph0, flow_dict, sink)

\* edmonds_karp_with_flows has returned a flow that uses two edges out of the
\* source, on a graph with an edge of positive capacity into the source
C25_Witness ==
  /\ pc = "idle"
  /\ ret["ekf"] > MaxCap
  /\ ~HasNegative(graph0)
  /\ source = "A" /\ sink = "T"
  /\ CapOf(graph0, "B", "A") > 0
  /\ flow_dict[<<"A", "B">>] > 0
  /\ flow_dict[<<"A", "T">>] > 0

\* C26: on a graph with non-negative capacities every residual capacity
\* res[u][v] is >= 0 in every state of a run of edmonds_karp,
\* edmonds_karp_with_flows or dinic (maxflow.py).
C26_ResidualNonNegative ==
  (pc \in {"ek", "ekf", "dinic_bfs", "dinic_dfs"} /\ ~HasNegative(graph0)) =>
    \A e \in Entries(res) : DGet2(res, e[1], e[2]) >= 0

\* dinic has saturated the edge A->B of capacity MaxCap in the course of a
\* phase
C26_Witness ==
  /\ pc = "dinic_dfs"
  /\ pushed > 0
  /\ CapOf(graph0, "A", "B") = MaxCap
  /\ DGet2(res, "A", "B") = 0
  /\ DGet2(res, "B", "A") = MaxCap

\* C30: app.py calls save_game_result only for a correct guess: every row
\* it has saved is a correct one, and a computation that found the guess
\* incorrect has saved nothing.
C30_SavedOnlyIfCorrect ==
  prog = "app" =>
    /\ \A i \in 1..Len(saved) : saved[i].is_correct = 1
    /\ (cv_pc = "done" /\ outcome = "ok" /\ ~is_correct) => saved = <<>>

(***************************************************************************)
(* Claims about the windows of app.py and app_debug.py, checked under      *)
(* SpecUI and SpecUIFair.                                                  *)
(***************************************************************************)
\* C27: in app.py at most one worker thread is in flight at any time, and a
\* worker is started only when none is in flight and the submit button is
\* enabled.
C27_OneWorker ==
  prog = "app" =>
    /\ Cardinality(InFlight) <= 1
    /\ InFlight # {} => play_btn = "disabled"

\* C28: in app_debug.py at most one worker thread exists at a time, a worker
\* in flight or a pending callback implies is_processing, and while
\* is_processing is true current_graph and round are the ones the submission
\* was accepted with.
C28_ProcessingExcludes ==
  prog = "dbg" =>
    /\ Cardinality(InFlight) <= 1
    /\ (InFlight # {} \/ after_q # <<>>) => is_processing
    /\ is_processing =>
         /\ play_btn = "disabled" /\ new_round_btn = "disabled"
         /\ current_graph = accepted.graph
         /\ round = accepted.round

\* app_debug.py computes its second submission, accepted in a later round
\* than the first
C28_Witness ==
  /\ prog = "dbg"
  /\ is_processing
  /\ submits = 2
  /\ threads[1] \in {"ended", "ended_exc"}
  /\ threads[2] = "try"
  /\ round > 1

\* C29: whenever the submit button is disabled (a submission was accepted),
\* it is eventually enabled again, with is_processing false in app_debug.py,
\* whether the worker's try block completed or raised, provided the worker
\* threads and the event loop keep running.
C29_ReEnabled ==
  (play_btn = "disabled") ~> (play_btn = "normal" /\ ~is_processing)

\* the button is enabled again after a worker whose try block raised
C29_Witness ==
  /\ submits > 0
  /\ play_btn = "normal"
  /\ ~is_processing
  /\ after_q = <<>>
  /\ threads[submits] = "ended_exc"

====
